---- MODULE Spec2Model ----
(***************************************************************************)
(* RadioService of fsradio_gui.py: the connect-with-fallback algorithm,    *)
(* the guarded command wrappers and the bridge from synchronous caller     *)
(* threads onto the asyncio event loop of the service.                     *)
(*                                                                         *)
(* Granularity: one action per Python statement executed by a caller       *)
(* thread (the statements of connect() and of _ensure_loop() interleave    *)
(* with the other threads), and one action per run of a coroutine between  *)
(* two awaits on the event loop.  is_connected() reads its two fields in   *)
(* one expression and is taken as one read of the session.  A string is a  *)
(* sequence of one-character strings.                                      *)
(*                                                                         *)
(* Left out: self.pin and self.timeout, the DNS lookup of lines 98-105 and *)
(* the AFSAPI is None test of line 92 (the dependency is installed); the   *)
(* transport (AFSAPI.create and the api methods) is an external device     *)
(* whose every call ends with a result or with an error.                   *)
(*                                                                         *)
(* Spec has two caller threads, SpecOneConnect the same with one connect() *)
(* at a time, SpecThreeCallers three threads that only call connect(), and *)
(* SpecResolve calls _normalize_candidates alone on every bounded string.  *)
(***************************************************************************)
EXTENDS Integers, Sequences, FiniteSets, TLC

(* ---------------------------- bounds ----------------------------------- *)

\* operations the caller threads invoke at most, all together
MaxOps == 3

\* the pieces a string handed to _normalize_candidates is made of, at most
MaxTokens == 3

\* the caller threads (GUI thread, do_connect and _async_call workers)
Threads == {"t1", "t2"}

\* the caller threads there are: the third one only calls where the
\* specification says so (three clicks on Connect, lines 366-376)
Callers == Threads \cup {"t3"}

(* ---------------------------- strings ---------------------------------- *)

Str_http == <<"h", "t", "t", "p", ":", "/", "/">>
Str_https == <<"h", "t", "t", "p", "s", ":", "/", "/">>
Str_device == <<"/", "d", "e", "v", "i", "c", "e">>
Str_fsapi == <<"/", "f", "s", "a", "p", "i">>
Str_p80 == <<":", "8", "0">>

Whitespace == {" ", "\t", "\n", "\r"}

StartsWith(s, p) == Len(s) >= Len(p) /\ SubSeq(s, 1, Len(p)) = p

EndsWith(s, p) == Len(s) >= Len(p) /\ SubSeq(s, Len(s) - Len(p) + 1, Len(s)) = p

RECURSIVE LStrip(_)
LStrip(s) == IF s # <<>> /\ Head(s) \in Whitespace THEN LStrip(Tail(s)) ELSE s

RECURSIVE RStripSet(_, _)
RStripSet(s, cs) ==
    IF s # <<>> /\ s[Len(s)] \in cs THEN RStripSet(SubSeq(s, 1, Len(s) - 1), cs) ELSE s

\* str.strip()
Strip(s) == RStripSet(LStrip(s), Whitespace)

\* index of the first occurrence of p in s, 0 when there is none
FindSub(s, p) ==
    LET hits == {i \in 1..(Len(s) - Len(p) + 1) : SubSeq(s, i, i + Len(p) - 1) = p}
    IN  IF hits = {} THEN 0 ELSE CHOOSE i \in hits : \A j \in hits : i <= j

\* re.search(r"/(device|fsapi)(/)?$", s)
HasRootSuffix(s) ==
    \/ EndsWith(s, Str_device)
    \/ EndsWith(s, Str_fsapi)
    \/ EndsWith(s, Str_device \o <<"/">>)
    \/ EndsWith(s, Str_fsapi \o <<"/">>)

\* the dedupe loop: first occurrences, order kept
RECURSIVE Dedupe(_, _)
Dedupe(cs, uniq) ==
    IF cs = <<>> THEN uniq
    ELSE IF \E i \in 1..Len(uniq) : uniq[i] = Head(cs)
         THEN Dedupe(Tail(cs), uniq)
         ELSE Dedupe(Tail(cs), Append(uniq, Head(cs)))

\* _normalize_candidates: raised is TRUE when host_port.split("//", 1)[1]
\* raises IndexError (no "//" is left after rstrip("/"))
NormalizeCandidates(user_input) ==
    LET s0 == Strip(user_input)
        s  == IF StartsWith(s0, Str_http) \/ StartsWith(s0, Str_https)
              THEN s0 ELSE Str_http \o s0
        host_port == RStripSet(s, {"/"})
        cut == FindSub(host_port, <<"/", "/">>)
        host_only == SubSeq(host_port, cut + 2, Len(host_port))
        has_port == \E i \in 1..Len(host_only) : host_only[i] = ":"
        candidates ==
            << IF has_port THEN host_port \o Str_device
                           ELSE host_port \o Str_p80 \o Str_device,
               IF has_port THEN host_port \o Str_fsapi
                           ELSE host_port \o Str_p80 \o Str_fsapi,
               host_port >>
    IN  IF s0 = <<>> THEN [raised |-> FALSE, val |-> <<>>]
        ELSE IF HasRootSuffix(s) THEN [raised |-> FALSE, val |-> <<s>>]
        ELSE IF cut = 0 THEN [raised |-> TRUE, val |-> <<>>]
        ELSE [raised |-> FALSE, val |-> Dedupe(candidates, <<>>)]

\* the addresses a caller passes to connect(): a bare host, a host with an
\* explicit root path, a blank string, a bare scheme
Inputs ==
    << <<"a">>,
       <<"a", "/", "f", "s", "a", "p", "i">>,
       <<" ">>,
       Str_http >>

CandTable == [i \in 1..Len(Inputs) |-> NormalizeCandidates(Inputs[i])]

(* ---------------------------- values ----------------------------------- *)

\* the nine guarded wrappers
Commands ==
    {"get_friendly_name", "get_power", "set_power", "get_volume", "set_volume",
     "get_modes", "set_mode", "get_presets", "recall_preset"}

\* self._api = None; a handle is the AFSAPI object one _create() coroutine made
NoApi == [by |-> "none", seq |-> 0, url |-> <<>>]

\* self.url_used = None
NoUrl == <<"None">>

NoErr == [kind |-> "None", at |-> 0]

NoFut == [kind |-> "none", h |-> NoApi]

\* _normalize_candidates has not been called
NotCalled == [raised |-> FALSE, val |-> << <<"-">> >>]

NoRet == [who |-> "none", op |-> "none", kind |-> "none", tried |-> <<>>,
          last |-> NoErr]

(* ---------------------------- state ------------------------------------ *)

VARIABLES
    api,        \* self._api
    connected,  \* self._connected
    url_used,   \* self.url_used
    loop,       \* self._loop: 0 is None, else the id of an event loop
    thr,        \* self._thread: 0 is None, else an index of thrObjs
    nLoops,     \* event loops created by asyncio.new_event_loop()
    thrObjs,    \* the threading.Thread objects created: target loop, started
    loopRun,    \* the loops on which a worker thread executes run_forever()
    queue,      \* per loop, the FIFO of submitted coroutines not yet run
    tst,        \* per caller, its coroutine: none, queued, call, create, probe, done
    tloop,      \* per caller, the loop its coroutine was submitted to
    fut,        \* per caller, the concurrent.futures.Future of its coroutine
    pc,         \* per caller, the statement it executes next
    op,         \* per caller, the operation it is inside: connect, command, none
    opno,       \* per caller, operations invoked so far
    done,       \* per caller, operations that have returned or raised
    inp,        \* per caller, connect(): index of user_url in Inputs
    ci,         \* per caller, connect(): position of the for loop
    lastErr,    \* per caller, connect(): last_err
    res,        \* per caller, connect(): the local api of line 118
    attempts,   \* per caller, connect(): the candidates whose create was called,
                \* each with how the attempt ended
    gApi,       \* per caller, self._api as it was when the guard passed
    ret,        \* what the step just taken returned or raised to a caller, if anything
    order,      \* the callers whose coroutine is submitted and not yet run, in
                \* the order of their run_coroutine_threadsafe calls
    rin,        \* _normalize_candidates called on its own: user_input
    rout        \* _normalize_candidates called on its own: what it returned

service == << api, connected, url_used, loop, thr, nLoops, thrObjs, loopRun,
              queue, tst, tloop, fut, pc, op, opno, done, inp, ci, lastErr,
              res, attempts, gApi, ret, order >>

vars == << service, rin, rout >>

session == << api, connected, url_used >>
worker == << loop, thr, nLoops, thrObjs, loopRun >>
tasks == << queue, tst, tloop, fut >>

Loops == 1..Cardinality(Callers)

\* RadioService.__init__, and no caller inside an operation
Constructed ==
    /\ api = NoApi /\ connected = FALSE /\ url_used = NoUrl
    /\ loop = 0 /\ thr = 0 /\ nLoops = 0 /\ thrObjs = <<>> /\ loopRun = {}
    /\ queue = [l \in Loops |-> <<>>]
    /\ tst = [t \in Callers |-> "none"]
    /\ tloop = [t \in Callers |-> 0]
    /\ fut = [t \in Callers |-> NoFut]
    /\ pc = [t \in Callers |-> "idle"]
    /\ op = [t \in Callers |-> "none"]
    /\ opno = [t \in Callers |-> 0]
    /\ done = [t \in Callers |-> 0]
    /\ inp = [t \in Callers |-> 0]
    /\ ci = [t \in Callers |-> 0]
    /\ lastErr = [t \in Callers |-> NoErr]
    /\ res = [t \in Callers |-> NoApi]
    /\ attempts = [t \in Callers |-> <<>>]
    /\ gApi = [t \in Callers |-> NoApi]
    /\ ret = NoRet
    /\ order = <<>>

Init == Constructed /\ rin = <<>> /\ rout = NotCalled

(* ---------------------------- helpers ---------------------------------- *)

RECURSIVE SumOver(_, _)
SumOver(f, S) ==
    IF S = {} THEN 0
    ELSE LET x == CHOOSE y \in S : TRUE IN f[x] + SumOver(f, S \ {x})

\* a caller may invoke one more operation
MayCall(t) == pc[t] = "idle" /\ SumOver(opno, Callers) < MaxOps

\* is_connected()
IsConnected == connected /\ api # NoApi

Cands(t) == CandTable[inp[t]].val

Raised(t, o, k) ==
    [who |-> t, op |-> o, kind |-> k, tried |-> <<>>, last |-> NoErr]

\* the operation of caller t returns or raises r: its frame is dropped
Return(t, r) ==
    /\ pc' = [pc EXCEPT ![t] = "idle"]
    /\ op' = [op EXCEPT ![t] = "none"]
    /\ done' = [done EXCEPT ![t] = @ + 1]
    /\ ret' = r
    /\ inp' = [inp EXCEPT ![t] = 0]
    /\ ci' = [ci EXCEPT ![t] = 0]
    /\ lastErr' = [lastErr EXCEPT ![t] = NoErr]
    /\ res' = [res EXCEPT ![t] = NoApi]
    /\ attempts' = [attempts EXCEPT ![t] = <<>>]
    /\ gApi' = [gApi EXCEPT ![t] = NoApi]

Goto(t, l) == pc' = [pc EXCEPT ![t] = l]

\* NextCandidate as it would be if the except clause kept the first error
\* (last_err = last_err or e)
NextCandidateKeepFirst(t, e) ==
    /\ lastErr' = [lastErr EXCEPT ![t] = IF @ = NoErr THEN e ELSE @]
    /\ ci' = [ci EXCEPT ![t] = @ + 1]
    /\ pc' = [pc EXCEPT ![t] = IF ci[t] + 1 > Len(CandTable[inp[t]].val)
                                THEN "L127" ELSE "L53"]
    /\ ret' = NoRet
    /\ UNCHANGED << op, done, inp, res, attempts, gApi >>

\* connect(): the except clause of line 123 and the next turn of the for loop
NextCandidate(t, e) ==
    /\ lastErr' = [lastErr EXCEPT ![t] = e]
    /\ ci' = [ci EXCEPT ![t] = @ + 1]
    /\ Goto(t, IF ci[t] + 1 > Len(Cands(t)) THEN "L127" ELSE "L53")
    /\ ret' = NoRet
    /\ UNCHANGED << op, done, inp, res, attempts, gApi >>

(* ---------------------------- caller threads --------------------------- *)

\* CallCommand as it would be without the self._require() line
CallCommandUnguarded(t, c) ==
    /\ MayCall(t)
    /\ opno' = [opno EXCEPT ![t] = @ + 1]
    /\ op' = [op EXCEPT ![t] = "command"]
    /\ gApi' = [gApi EXCEPT ![t] = api]
    /\ ret' = NoRet
    /\ Goto(t, "L53")
    /\ UNCHANGED << done, inp, ci, lastErr, res, attempts >>
    /\ UNCHANGED << session, worker, tasks >>
    /\ UNCHANGED << order, rin, rout >>

\* a guarded wrapper c up to its call of _run_coro: self._require() (line 142
\* and its like) raises when is_connected() is false, else the coroutine
\* object is made and _run_coro entered.  The nine wrappers differ in the api
\* method their coroutine awaits and in nothing the session or the loop sees:
\* past the guard the frame keeps only that it is a command
CallCommand(t, c) ==
    /\ MayCall(t)
    /\ opno' = [opno EXCEPT ![t] = @ + 1]
    /\ IF ~IsConnected
       THEN Return(t, Raised(t, c, "NotConnected"))
       ELSE /\ op' = [op EXCEPT ![t] = "command"]
            /\ gApi' = [gApi EXCEPT ![t] = api]
            /\ ret' = NoRet
            /\ Goto(t, "L53")
            /\ UNCHANGED << done, inp, ci, lastErr, res, attempts >>
    /\ UNCHANGED << session, worker, tasks >>
    /\ UNCHANGED << order, rin, rout >>

\* RadioService has no disconnect attribute: the call raises AttributeError
CallDisconnect(t) ==
    /\ MayCall(t)
    /\ opno' = [opno EXCEPT ![t] = @ + 1]
    /\ Return(t, Raised(t, "disconnect", "AttributeError"))
    /\ UNCHANGED << session, worker, tasks >>
    /\ UNCHANGED << order, rin, rout >>

\* CallConnect as it would be without line 107: the old handle is kept
CallConnectKeepApi(t, i) ==
    /\ MayCall(t)
    /\ opno' = [opno EXCEPT ![t] = @ + 1]
    /\ op' = [op EXCEPT ![t] = "connect"]
    /\ inp' = [inp EXCEPT ![t] = i]
    /\ ret' = NoRet
    /\ Goto(t, "L108")
    /\ UNCHANGED << session, worker, tasks, done, ci, lastErr, res, attempts,
                    gApi >>
    /\ UNCHANGED << order, rin, rout >>

\* connect(user_url, pin, timeout), lines 91-107: pin, timeout and the DNS
\* lookup touch nothing of the session; then self._api = None
CallConnect(t, i) ==
    /\ MayCall(t)
    /\ opno' = [opno EXCEPT ![t] = @ + 1]
    /\ op' = [op EXCEPT ![t] = "connect"]
    /\ inp' = [inp EXCEPT ![t] = i]
    /\ ret' = NoRet
    /\ api' = NoApi
    /\ Goto(t, "L108")
    /\ UNCHANGED << connected, url_used, worker, tasks, done, ci, lastErr, res,
                    attempts, gApi >>
    /\ UNCHANGED << order, rin, rout >>

\* line 108: self._connected = False
ConnectResetConnected(t) ==
    /\ pc[t] = "L108"
    /\ connected' = FALSE
    /\ Goto(t, "L109")
    /\ ret' = NoRet
    /\ UNCHANGED << api, url_used, worker, tasks, op, opno, done, inp, ci,
                    lastErr, res, attempts, gApi >>
    /\ UNCHANGED << order, rin, rout >>

\* lines 109-112: self.url_used = None; last_err = None; the for statement
\* evaluates _normalize_candidates(user_url), whose IndexError is raised
\* outside the try and leaves connect()
ConnectResetUrl(t) ==
    /\ pc[t] = "L109"
    /\ url_used' = NoUrl
    /\ IF CandTable[inp[t]].raised
       THEN Return(t, Raised(t, "connect", "IndexError"))
       ELSE /\ ci' = [ci EXCEPT ![t] = 1]
            /\ Goto(t, IF Cands(t) = <<>> THEN "L127" ELSE "L53")
            /\ ret' = NoRet
            /\ UNCHANGED << op, done, inp, lastErr, res, attempts, gApi >>
    /\ UNCHANGED << api, connected, worker, tasks, opno >>
    /\ UNCHANGED << order, rin, rout >>

\* RaiseInRunCoro as it would be without the try of lines 113-125
RaiseInRunCoroPropagate(t, k) == Return(t, Raised(t, op[t], k))

\* an exception raised inside _run_coro: a command lets it propagate, connect()
\* catches it at line 123
RaiseInRunCoro(t, k) ==
    IF op[t] = "connect"
    THEN NextCandidate(t, [kind |-> k, at |-> ci[t]])
    ELSE Return(t, Raised(t, op[t], k))

\* line 53: if self._loop: return
EnsureLoopCheck(t) ==
    /\ pc[t] = "L53"
    /\ Goto(t, IF loop # 0 THEN "L61" ELSE "L55")
    /\ ret' = NoRet
    /\ UNCHANGED << session, worker, tasks, op, opno, done, inp, ci, lastErr,
                    res, attempts, gApi >>
    /\ UNCHANGED << order, rin, rout >>

\* line 55: self._loop = asyncio.new_event_loop()
EnsureLoopNew(t) ==
    /\ pc[t] = "L55"
    /\ nLoops' = nLoops + 1
    /\ loop' = nLoops + 1
    /\ Goto(t, "L56")
    /\ ret' = NoRet
    /\ UNCHANGED << session, thr, thrObjs, loopRun, tasks, op, opno, done, inp,
                    ci, lastErr, res, attempts, gApi >>
    /\ UNCHANGED << order, rin, rout >>

\* line 56: self._thread = threading.Thread(target=self._loop.run_forever)
EnsureLoopThread(t) ==
    /\ pc[t] = "L56"
    /\ thrObjs' = Append(thrObjs, [target |-> loop, started |-> FALSE])
    /\ thr' = Len(thrObjs) + 1
    /\ Goto(t, "L57")
    /\ ret' = NoRet
    /\ UNCHANGED << session, loop, nLoops, loopRun, tasks, op, opno, done, inp,
                    ci, lastErr, res, attempts, gApi >>
    /\ UNCHANGED << order, rin, rout >>

\* line 57: self._thread.start(); a Thread started twice raises RuntimeError,
\* and run_forever() on a loop that already runs ends the new thread at once
EnsureLoopStart(t) ==
    /\ pc[t] = "L57"
    /\ IF thrObjs[thr].started
       THEN /\ RaiseInRunCoro(t, "RuntimeError")
            /\ UNCHANGED << thrObjs, loopRun, opno >>
       ELSE /\ thrObjs' = [thrObjs EXCEPT ![thr].started = TRUE]
            /\ loopRun' = loopRun \cup {thrObjs[thr].target}
            /\ Goto(t, "L61")
            /\ ret' = NoRet
            /\ UNCHANGED << op, opno, done, inp, ci, lastErr, res, attempts,
                            gApi >>
    /\ UNCHANGED << session, loop, thr, nLoops, tasks >>
    /\ UNCHANGED << order, rin, rout >>

\* line 61: fut = asyncio.run_coroutine_threadsafe(coro, self._loop)
Submit(t) ==
    /\ pc[t] = "L61"
    /\ queue' = [queue EXCEPT ![loop] = Append(@, t)]
    /\ tst' = [tst EXCEPT ![t] = "queued"]
    /\ tloop' = [tloop EXCEPT ![t] = loop]
    /\ fut' = [fut EXCEPT ![t] = NoFut]
    /\ Goto(t, "L62")
    /\ ret' = NoRet
    /\ UNCHANGED << session, worker, op, opno, done, inp, ci, lastErr,
                    res, attempts, gApi >>
    /\ order' = Append(order, t)
    /\ UNCHANGED << rin, rout >>

\* FutureDone as it would be if _run_coro did not wait for the future
FutureDoneAlways(t) == TRUE

\* fut.result() blocks until the coroutine has finished
FutureDone(t) == tst[t] = "done"

\* AwaitResult as it would be if a failed command marked the session as gone
AwaitResultDemote(t) ==
    /\ pc[t] = "L62"
    /\ FutureDone(t)
    /\ tst' = [tst EXCEPT ![t] = "none"]
    /\ tloop' = [tloop EXCEPT ![t] = 0]
    /\ fut' = [fut EXCEPT ![t] = NoFut]
    /\ IF fut[t].kind = "ok"
       THEN IF op[t] = "connect"
            THEN /\ res' = [res EXCEPT ![t] = fut[t].h]
                 /\ Goto(t, "L119")
                 /\ ret' = NoRet
                 /\ UNCHANGED << op, done, inp, ci, lastErr, attempts, gApi >>
            ELSE Return(t, Raised(t, op[t], "ok"))
       ELSE RaiseInRunCoro(t, fut[t].kind)
    /\ connected' = (connected /\ (fut[t].kind = "ok" \/ op[t] = "connect"))
    /\ UNCHANGED << api, url_used, worker, queue, opno >>
    /\ UNCHANGED << order, rin, rout >>

\* line 62: return fut.result(), and what the caller does with it: a command
\* returns it or lets the error propagate; connect() keeps the handle for
\* line 119, or catches the error and goes on to the next candidate
AwaitResult(t) ==
    /\ pc[t] = "L62"
    /\ FutureDone(t)
    /\ tst' = [tst EXCEPT ![t] = "none"]
    /\ tloop' = [tloop EXCEPT ![t] = 0]
    /\ fut' = [fut EXCEPT ![t] = NoFut]
    /\ IF fut[t].kind = "ok"
       THEN IF op[t] = "connect"
            THEN /\ res' = [res EXCEPT ![t] = fut[t].h]
                 /\ Goto(t, "L119")
                 /\ ret' = NoRet
                 /\ UNCHANGED << op, done, inp, ci, lastErr, attempts, gApi >>
            ELSE Return(t, Raised(t, op[t], "ok"))
       ELSE RaiseInRunCoro(t, fut[t].kind)
    /\ UNCHANGED << session, worker, queue, opno >>
    /\ UNCHANGED << order, rin, rout >>

\* line 119: self._api = api
ConnectSetApi(t) ==
    /\ pc[t] = "L119"
    /\ api' = res[t]
    /\ Goto(t, "L120")
    /\ ret' = NoRet
    /\ UNCHANGED << connected, url_used, worker, tasks, op, opno, done, inp, ci,
                    lastErr, res, attempts, gApi >>
    /\ UNCHANGED << order, rin, rout >>

\* line 120: self._connected = True
ConnectSetConnected(t) ==
    /\ pc[t] = "L120"
    /\ connected' = TRUE
    /\ Goto(t, "L121")
    /\ ret' = NoRet
    /\ UNCHANGED << api, url_used, worker, tasks, op, opno, done, inp, ci,
                    lastErr, res, attempts, gApi >>
    /\ UNCHANGED << order, rin, rout >>

\* ConnectSetUrl as it would be without the break of line 122
ConnectSetUrlNoBreak(t) ==
    /\ pc[t] = "L121"
    /\ url_used' = Cands(t)[ci[t]]
    /\ ci' = [ci EXCEPT ![t] = @ + 1]
    /\ Goto(t, IF ci[t] + 1 > Len(Cands(t)) THEN "L127" ELSE "L53")
    /\ ret' = NoRet
    /\ UNCHANGED << api, connected, worker, tasks, op, opno, done, inp,
                    lastErr, res, attempts, gApi >>
    /\ UNCHANGED << order, rin, rout >>

\* lines 121-122: self.url_used = base; break
ConnectSetUrl(t) ==
    /\ pc[t] = "L121"
    /\ url_used' = Cands(t)[ci[t]]
    /\ Goto(t, "L127")
    /\ ret' = NoRet
    /\ UNCHANGED << api, connected, worker, tasks, op, opno, done, inp, ci,
                    lastErr, res, attempts, gApi >>
    /\ UNCHANGED << order, rin, rout >>

\* the RuntimeError of lines 128-131: the URLs of _normalize_candidates(user_url)
\* and last_err
ConnectError(t) ==
    [who |-> t, op |-> "connect", kind |-> "ConnectError", tried |-> Cands(t),
     last |-> lastErr[t]]

\* lines 127-131: if not self._connected: raise RuntimeError(...)
ConnectFinish(t) ==
    /\ pc[t] = "L127"
    /\ IF ~connected
       THEN Return(t, ConnectError(t))
       ELSE Return(t, Raised(t, "connect", "ok"))
    /\ UNCHANGED << session, worker, tasks, opno >>
    /\ UNCHANGED << order, rin, rout >>

(* ---------------------------- event loop ------------------------------- *)

\* the handle AFSAPI.create returns to the _create() coroutine of caller t
NewHandle(t) == [by |-> t, seq |-> opno[t], url |-> Cands(t)[ci[t]]]

\* Finish as it would be if an exception ended every coroutine in flight
FinishAll(t, f) ==
    /\ tst' = [u \in Callers |->
                IF u = t \/ (f.kind # "ok" /\ tst[u] \in {"call", "create", "probe"})
                THEN "done" ELSE tst[u]]
    /\ fut' = [u \in Callers |->
                IF u = t \/ (f.kind # "ok" /\ tst[u] \in {"call", "create", "probe"})
                THEN f ELSE fut[u]]

\* the coroutine of caller t ends: its future gets the result or the exception
Finish(t, f) ==
    /\ tst' = [tst EXCEPT ![t] = "done"]
    /\ fut' = [fut EXCEPT ![t] = f]

\* the attempt of caller t that is under way ends with r
Ended(t, r) == attempts' = [attempts EXCEPT ![t][Len(attempts[t])].r = r]

\* the loop takes the oldest submitted coroutine and runs it to its first
\* await: _c() reads self._api and starts the transport call (AttributeError
\* when self._api is None); _create() starts AFSAPI.create(base, ...)
RunNext(l) ==
    /\ l \in loopRun
    /\ queue[l] # <<>>
    /\ LET t == Head(queue[l]) IN
       /\ queue' = [queue EXCEPT ![l] = Tail(@)]
       /\ IF op[t] = "connect"
          THEN /\ tst' = [tst EXCEPT ![t] = "create"]
               /\ attempts' = [attempts EXCEPT ![t] =
                                 Append(@, [c |-> ci[t], r |-> "pending"])]
               /\ UNCHANGED fut
          ELSE IF api = NoApi
          THEN /\ Finish(t, [kind |-> "AttributeError", h |-> NoApi])
               /\ UNCHANGED attempts
          ELSE /\ tst' = [tst EXCEPT ![t] = "call"]
               /\ UNCHANGED << fut, attempts >>
    /\ ret' = NoRet
    /\ UNCHANGED << session, worker, tloop, pc, op, opno, done, inp, ci, lastErr,
                    res, gApi >>
    /\ order' = SelectSeq(order, LAMBDA u : u # Head(queue[l]))
    /\ UNCHANGED << rin, rout >>

\* the transport call a coroutine awaits ends, with a result (ok) or an error,
\* and the coroutine runs on: after create, _create() starts the probe
Complete(t, ok) ==
    /\ tst[t] \in {"call", "create", "probe"}
    /\ tloop[t] \in loopRun
    /\ CASE tst[t] = "call" ->
              /\ Finish(t, [kind |-> IF ok THEN "ok" ELSE "DeviceCallFailed",
                            h |-> NoApi])
              /\ UNCHANGED attempts
         [] tst[t] = "create" ->
              IF ok
              THEN /\ tst' = [tst EXCEPT ![t] = "probe"]
                   /\ UNCHANGED << fut, attempts >>
              ELSE /\ Finish(t, [kind |-> "CreateFailed", h |-> NoApi])
                   /\ Ended(t, "CreateFailed")
         [] tst[t] = "probe" ->
              IF ok
              THEN /\ Finish(t, [kind |-> "ok", h |-> NewHandle(t)])
                   /\ Ended(t, "ok")
              ELSE /\ Finish(t, [kind |-> "ProbeFailed", h |-> NoApi])
                   /\ Ended(t, "ProbeFailed")
    /\ ret' = NoRet
    /\ UNCHANGED << session, worker, queue, tloop, pc, op, opno, done, inp, ci,
                    lastErr, res, gApi >>
    /\ UNCHANGED << order, rin, rout >>

(* ---------------------------- specification ---------------------------- *)

\* the steps of the callers past the invocation of connect(), and of the loops
Steps ==
    \/ \E t \in Threads : \E c \in Commands : CallCommand(t, c)
    \/ \E t \in Threads : CallDisconnect(t)
    \/ \E t \in Threads : ConnectResetConnected(t)
    \/ \E t \in Threads : ConnectResetUrl(t)
    \/ \E t \in Threads : EnsureLoopCheck(t)
    \/ \E t \in Threads : EnsureLoopNew(t)
    \/ \E t \in Threads : EnsureLoopThread(t)
    \/ \E t \in Threads : EnsureLoopStart(t)
    \/ \E t \in Threads : Submit(t)
    \/ \E t \in Threads : AwaitResult(t)
    \/ \E t \in Threads : ConnectSetApi(t)
    \/ \E t \in Threads : ConnectSetConnected(t)
    \/ \E t \in Threads : ConnectSetUrl(t)
    \/ \E t \in Threads : ConnectFinish(t)
    \/ \E l \in Loops : RunNext(l)
    \/ \E t \in Threads : \E ok \in BOOLEAN : Complete(t, ok)

Next ==
    \/ \E t \in Threads : \E i \in 1..Len(Inputs) : CallConnect(t, i)
    \/ Steps

Spec == Init /\ [][Next]_vars

\* no caller other than t is inside connect()
NoOtherConnect(t) == \A u \in Threads \ {t} : op[u] # "connect"

\* at most one connect() is under way at a time (the commands stay concurrent)
NextOneConnect ==
    \/ \E t \in Threads : \E i \in 1..Len(Inputs) :
          NoOtherConnect(t) /\ CallConnect(t, i)
    \/ Steps

SpecOneConnect == Init /\ [][NextOneConnect]_vars

\* the pieces of the strings a user types into the URL field: host letters,
\* port digits, separators, blanks, schemes and the two path roots
Tokens ==
    { <<"a">>, <<"8">>, <<":">>, <<"/">>, <<" ">>, Str_http, Str_https,
      <<"H", "T", "T", "P", ":", "/", "/">>, Str_device, Str_fsapi }

RECURSIVE Strings(_)
Strings(n) ==
    IF n = 0 THEN { <<>> }
    ELSE LET shorter == Strings(n - 1)
         IN  shorter \cup { s \o k : s \in shorter, k \in Tokens }

\* _normalize_candidates(user_input) called on its own, as the GUI does not:
\* the function reads nothing but its argument
InitResolve ==
    /\ Constructed
    /\ rin \in Strings(MaxTokens)
    /\ rout = NotCalled

CallNormalize ==
    /\ rout = NotCalled
    /\ rout' = NormalizeCandidates(rin)
    /\ UNCHANGED << service, rin >>

NextResolve == CallNormalize

SpecResolve == InitResolve /\ [][NextResolve]_vars

\* three callers inside connect() at once, each with the address that has one
\* candidate, and no command: the steps of connect() and of the loops
ConnectSteps ==
    \/ \E t \in Callers : ConnectResetConnected(t)
    \/ \E t \in Callers : ConnectResetUrl(t)
    \/ \E t \in Callers : EnsureLoopCheck(t)
    \/ \E t \in Callers : EnsureLoopNew(t)
    \/ \E t \in Callers : EnsureLoopThread(t)
    \/ \E t \in Callers : EnsureLoopStart(t)
    \/ \E t \in Callers : Submit(t)
    \/ \E t \in Callers : AwaitResult(t)
    \/ \E t \in Callers : ConnectSetApi(t)
    \/ \E t \in Callers : ConnectSetConnected(t)
    \/ \E t \in Callers : ConnectSetUrl(t)
    \/ \E t \in Callers : ConnectFinish(t)
    \/ \E l \in Loops : RunNext(l)
    \/ \E t \in Callers : \E ok \in BOOLEAN : Complete(t, ok)

NextThreeCallers ==
    \/ \E t \in Callers : CallConnect(t, 2)
    \/ ConnectSteps

SpecThreeCallers == Init /\ [][NextThreeCallers]_vars

(* ---------------------------- claims ----------------------------------- *)

InFlight == {"call", "create", "probe"}

\* a coroutine starts a transport call in this step
TransportCallStarts ==
    \E u \in Threads : tst'[u] \in InFlight /\ tst'[u] # tst[u]

\* caller t invokes a guarded wrapper in this step
CommandInvoked(t) ==
    /\ pc[t] = "idle"
    /\ opno'[t] = opno[t] + 1
    /\ (op'[t] = "command" \/ ret'.op \in Commands)

\* C1: a command operation invoked while is_connected() is false raises the
\* not-connected error at once: nothing is submitted to the worker and no
\* transport call is made.
C1_GuardFailsFast ==
    [][\A t \in Threads :
         (CommandInvoked(t) /\ ~IsConnected)
            => /\ ret'.who = t /\ ret'.kind = "NotConnected"
               /\ ret'.op \in Commands
               /\ pc'[t] = "idle" /\ done'[t] = done[t] + 1
               /\ queue' = queue /\ tst' = tst
               /\ ~TransportCallStarts]_vars

\* set_volume raises at its guard while a reconnect has cleared the handle and
\* not yet the flag
C1_Witness ==
    /\ ret.kind = "NotConnected" /\ ret.op = "set_volume"
    /\ connected /\ api = NoApi

\* C2: no two transport calls of command operations are ever started and not
\* yet completed at the same time.
C2_OneCallInFlight == Cardinality({t \in Threads : tst[t] = "call"}) <= 1

\* C3: connect() never changes _api, _connected or url_used while a command
\* operation that has passed its guard has not yet got its result or error.
C3_NoConnectDuringCommand ==
    [][(\E t \in Threads : op[t] = "command") => UNCHANGED session]_vars

\* C4: when the coroutine of a command dereferences self._api on the worker,
\* the handle is present, connected is true, and the handle is the one that
\* was present when the guard of that command passed.
C4_DerefGuardedHandle ==
    [][\A t \in Threads :
         (op[t] = "command" /\ tst[t] = "queued" /\ tst'[t] # "queued")
            => (api # NoApi /\ connected /\ api = gApi[t])]_vars

\* C5: in every state, connected is true iff the handle is present, and
\* url_used is set iff connected is true.
C5_SessionInvariant ==
    /\ connected <=> api # NoApi
    /\ url_used # NoUrl <=> connected

\* connect() of caller t returns or raises in this step, from line 127
ConnectReturns(t) == op[t] = "connect" /\ pc[t] = "L127" /\ pc'[t] = "idle"

C8_SameCallerOrder ==
    \A t \in Threads :
       tst[t] \in InFlight => (pc[t] = "L62" /\ done[t] = opno[t] - 1)

\* the second operation of a caller has its transport call under way while
\* the other caller's call is under way too
C8_Witness ==
    \E t \in Threads : \E u \in Threads \ {t} :
       /\ opno[t] = 2 /\ done[t] = 1 /\ tst[t] = "call"
       /\ tst[u] \in InFlight

\* C9: at most one event loop and one worker thread are ever created, and
\* every submitted coroutine is on that loop.
C9_OneLoopOneThread ==
    /\ nLoops <= 1
    /\ Len(thrObjs) <= 1
    /\ \A t \in Threads : tloop[t] \in {0, 1}

\* C10: after disconnect() has returned, is_connected() is false.
C10_DisconnectClears == ret.op = "disconnect" => ~IsConnected

\* the resolver as section 4.1 states it, to compare _normalize_candidates
\* with: an input has a scheme when letters and then "://" open it
Letters ==
    {"a", "c", "d", "e", "f", "h", "i", "p", "s", "t", "v", "H", "P", "T"}

SchemeEnd(s) ==
    IF \E i \in 2..(Len(s) - 2) :
          /\ SubSeq(s, i, i + 2) = <<":", "/", "/">>
          /\ \A j \in 1..(i - 1) : s[j] \in Letters
    THEN (CHOOSE i \in 2..(Len(s) - 2) :
             /\ SubSeq(s, i, i + 2) = <<":", "/", "/">>
             /\ \A j \in 1..(i - 1) : s[j] \in Letters) + 2
    ELSE 0

RefWithScheme(raw) ==
    LET s0 == Strip(raw)
    IN  IF SchemeEnd(s0) > 0 THEN s0 ELSE Str_http \o s0

RefAfterScheme(raw) ==
    LET s == RefWithScheme(raw)
    IN  SubSeq(s, SchemeEnd(s) + 1, Len(s))

\* the input names a host: something stands between the scheme and the path
HasHost(raw) ==
    /\ Strip(raw) # <<>>
    /\ RefAfterScheme(raw) # <<>>
    /\ RefAfterScheme(raw)[1] # "/"

RefResolve(raw) ==
    LET s == RefWithScheme(raw)
        hostPort == RStripSet(s, {"/"})
        rest == SubSeq(hostPort, SchemeEnd(s) + 1, Len(hostPort))
        port == IF \E i \in 1..Len(rest) : rest[i] = ":" THEN <<>> ELSE Str_p80
    IN  IF Strip(raw) = <<>> THEN <<>>
        ELSE IF \E r \in {Str_device, Str_fsapi} :
                   EndsWith(s, r) \/ EndsWith(s, r \o <<"/">>)
        THEN <<s>>
        ELSE << hostPort \o port \o Str_device, hostPort \o port \o Str_fsapi,
                hostPort >>

\* C11: on every input that is blank or names a host, _normalize_candidates
\* returns the sequence the resolver of section 4.1 gives: nothing for a blank
\* input, the input itself (http:// put before it when it has no scheme) when
\* it ends in /device or /fsapi, else hostPort:80/device, hostPort:80/fsapi
\* (the :80 only when no port is given) and hostPort, in that order
C11_AgreesWithResolver ==
    (rout # NotCalled /\ (Strip(rin) = <<>> \/ HasHost(rin)))
        => (~rout.raised /\ rout.val = RefResolve(rin))

\* C11 on the inputs that have no scheme or open with http:// or https://
C11_AgreesOnHttp ==
    (/\ rout # NotCalled
     /\ Strip(rin) = <<>> \/ HasHost(rin)
     /\ LET s0 == Strip(rin)
        IN  SchemeEnd(s0) > 0 => (StartsWith(s0, Str_http) \/ StartsWith(s0, Str_https)))
        => (~rout.raised /\ rout.val = RefResolve(rin))

\* C20: _normalize_candidates returns a sequence for every input, a bare
\* scheme included: it never raises
C20_ResolverTotal == rout # NotCalled => ~rout.raised

\* caller t, or the loop on its behalf, takes a step of a command
CommandStep(t) ==
    /\ \/ op[t] = "command"
       \/ op'[t] = "command"
       \/ ret'.who = t /\ ret'.op \in Commands
    /\ pc'[t] # pc[t] \/ tst'[t] # tst[t] \/ opno'[t] # opno[t]

\* C12: no step of a command changes _api, _connected or url_used, whether
\* the guard fails, the transport call succeeds or it raises; and the session
\* becomes connected only by a step of a caller inside connect()
C12_CommandsKeepSession ==
    [][/\ \A t \in Threads : CommandStep(t) => UNCHANGED session
       /\ (~IsConnected /\ IsConnected') =>
             \E t \in Threads : op[t] = "connect" /\ pc'[t] # pc[t]]_vars

\* a command has raised the error of its transport call and the session is
\* still connected
C12_Witness ==
    /\ ret.kind = "DeviceCallFailed"
    /\ IsConnected
    /\ url_used # NoUrl

\* the errors a transport call raises
TransportErrors == {"DeviceCallFailed", "CreateFailed", "ProbeFailed"}

\* nothing of a caller other than t changes in the step
OthersUntouched(t) ==
    \A u \in Threads \ {t} :
        /\ fut'[u] = fut[u] /\ tst'[u] = tst[u] /\ tloop'[u] = tloop[u]
        /\ pc'[u] = pc[u] /\ op'[u] = op[u] /\ done'[u] = done[u]

C14_CandidateFailureCaught ==
    [][/\ \A t \in Threads :
            (/\ op[t] = "connect" /\ pc[t] = "L62" /\ pc'[t] # "L62"
             /\ fut[t].kind \in {"CreateFailed", "ProbeFailed"}) =>
                /\ ret' = NoRet
                /\ op'[t] = "connect"
                /\ lastErr'[t] = [kind |-> fut[t].kind, at |-> ci[t]]
                /\ ci'[t] = ci[t] + 1
                /\ pc'[t] = IF ci[t] < Len(Cands(t)) THEN "L53" ELSE "L127"
                /\ res'[t] = NoApi
                /\ UNCHANGED session
       /\ (api' # api /\ api' # NoApi) =>
            \E t \in Threads :
                /\ pc[t] = "L119" /\ pc'[t] = "L120"
                /\ attempts[t][Len(attempts[t])].r = "ok"
                /\ api'.by = t
                /\ api'.url = Cands(t)[attempts[t][Len(attempts[t])].c]]_vars

\* the probe of the first candidate has failed and connect() is about to try
\* the second
C14_Witness ==
    \E t \in Threads :
        /\ op[t] = "connect" /\ pc[t] = "L53" /\ ci[t] = 2
        /\ attempts[t] = << [c |-> 1, r |-> "ProbeFailed"] >>
        /\ lastErr[t] = [kind |-> "ProbeFailed", at |-> 1]
        /\ api = NoApi

\* the session as lines 107-109 leave it
Cleared == << NoApi, FALSE, NoUrl >>

C16_CrossCallerFifo ==
    [][\A t \in Threads :
          (tst[t] = "queued" /\ tst'[t] \in {"create", "call"}) =>
              Head(order) = t]_vars

\* no caller other than t is inside _ensure_loop past the test of line 53:
\* from here on no thread is created or started for a loop made earlier
NoStarterBut(t) == \A u \in Callers \ {t} : pc[u] \notin {"L55", "L56", "L57"}

\* C17: a caller blocked in fut.result() is never left waiting on a loop that
\* no thread runs and no thread will run: its coroutine can always go on, so
\* that with terminating transport calls and a fairly scheduled worker the
\* operation returns its result or error
C17_NoCallerStuck ==
    \A t \in Callers :
        (pc[t] = "L62" /\ tst[t] # "done" /\ NoStarterBut(t))
            => tloop[t] \in loopRun

\* C18: with connect() calls overlapping, a call returns without raising only
\* if the create and the probe of one of its own candidates passed; a call
\* whose candidates all failed raises the connect error
C18_OwnCandidateDecides ==
    [][\A t \in Threads :
          (ConnectReturns(t) /\ ret'.kind = "ok") =>
              /\ attempts[t] # <<>>
              /\ attempts[t][Len(attempts[t])].r = "ok"]_vars

\* C19: whenever is_connected() is true and url_used is set, url_used is the
\* candidate from which the handle in _api was created and probed
C19_UrlMatchesHandle ==
    (IsConnected /\ url_used # NoUrl) => api.url = url_used
====
